---- MODULE Spec2Model ----
(***************************************************************************)
(* Model of custom_components/deepstack_object/image_processing.py: the    *)
(* ObjectClassifyEntity pipeline (process_image, save_image) and the pure  *)
(* helpers it calls (point_in_box, object_in_roi, get_valid_filename,      *)
(* get_object_type, get_objects).                                          *)
(*                                                                         *)
(* Numbers.  Python floats are modelled as fixed-point integers:           *)
(*   - normalised coordinates, sizes and areas: thousandths (0.3 -> 300);  *)
(*   - percent confidences (obj["confidence"], self._confidence):          *)
(*     thousandths of a percent (80.0 -> 80000);                           *)
(*   - raw detector confidences in [0,1]: millionths (0.85 -> 850000);     *)
(*   - pixel coordinates and image sizes: integers.                        *)
(* round(v, 3) is Round(num, den): the nearest thousandth of num/den, an   *)
(* exact tie going to the even neighbour.                                  *)
(***************************************************************************)
EXTENDS Integers, Sequences, FiniteSets, TLC

VARIABLES
    \* configuration, fixed by ObjectClassifyEntity.__init__
    targets, confidence, roi_dict, show_boxes, save_file_folder,
    save_timestamped_file, name,
    \* fields of the entity
    state, objects, targets_found, summary, last_detection,
    image_width, image_height,
    \* environment: the clock, and the files of the save directory (each
    \* path with the clock tick of the call that last wrote it)
    now, files,
    \* the last call of process_image: whether its first decode succeeded,
    \* how the detector call ended and what it returned, the exception that
    \* left process_image, and the file writes and bus events, in order
    decode, detector, predictions, raised, effects

config_vars == <<targets, confidence, roi_dict, show_boxes, save_file_folder,
                 save_timestamped_file, name>>
entity_vars == <<state, objects, targets_found, summary, last_detection,
                 image_width, image_height>>
call_vars == <<decode, detector, predictions, raised, effects>>
vars == <<config_vars, entity_vars, now, files, call_vars>>

-----------------------------------------------------------------------------
(* Bounds of the model *)

\* longest list of predictions the detector returns
MaxPreds == 2
\* the clock runs from tick 0 to tick MaxTick
MaxTick == 2
\* clock ticks in one second (strftime drops the sub-second part)
TicksPerSecond == 2

-----------------------------------------------------------------------------
(* Constants of the program *)

\* Python's None, where the field otherwise holds a number >= 0
None == -1
\* Python's None, where the local otherwise holds a path
NoPath == << >>

ANIMAL == "animal"
ANIMALS == {"bird", "cat", "dog", "horse", "sheep", "cow", "elephant", "bear",
            "zebra", "giraffe"}
\* the source's OTHER (a reserved word of TLA+)
OTHER_ == "other"
PERSON == "person"
VEHICLE == "vehicle"
VEHICLES == {"bicycle", "car", "motorcycle", "airplane", "bus", "train", "truck"}

EVENT_OBJECT_DETECTED == "deepstack.object_detected"

\* (y_min, x_min, y_max, x_max) = (0.0, 0.0, 1.0, 1.0)
DEFAULT_ROI == <<0, 0, 1000, 1000>>

-----------------------------------------------------------------------------
(* Pure helpers *)

\* round(num / den, 0) for den > 0: nearest integer, ties to even.  (On a
\* float a tie falls as the binary value of the quotient lies; the
\* predictions of RawDetections produce no tie.)
Round(num, den) ==
    LET q == num \div den
        r == num % den
    IN  IF 2 * r < den THEN q
        ELSE IF 2 * r > den THEN q + 1
        ELSE IF q % 2 = 0 THEN q ELSE q + 1

\* point_in_box with exclusive bounds
point_in_box_exclusive(box, point) ==
    IF (box.x_min < point.x /\ point.x < box.x_max)
       /\ (box.y_min < point.y /\ point.y < box.y_max)
    THEN TRUE
    ELSE FALSE

point_in_box(box, point) ==
    IF (box.x_min <= point.x /\ point.x <= box.x_max)
       /\ (box.y_min <= point.y /\ point.y <= box.y_max)
    THEN TRUE
    ELSE FALSE

object_in_roi(roi, centroid) ==
    LET target_center_point == [y |-> centroid.y, x |-> centroid.x]
        roi_box == [y_min |-> roi.y_min, x_min |-> roi.x_min,
                    y_max |-> roi.y_max, x_max |-> roi.x_max]
    IN  point_in_box(roi_box, target_center_point)

get_object_type(object_name) ==
    IF object_name = PERSON THEN PERSON
    ELSE IF object_name \in ANIMALS THEN ANIMAL
    ELSE IF object_name \in VEHICLES THEN VEHICLE
    ELSE OTHER_

\* one element of the list get_objects builds
get_object(pred, img_width, img_height) ==
    LET box_width == pred.x_max - pred.x_min
        box_height == pred.y_max - pred.y_min
        box == [height |-> Round(box_height * 1000, img_height),
                width |-> Round(box_width * 1000, img_width),
                y_min |-> Round(pred.y_min * 1000, img_height),
                x_min |-> Round(pred.x_min * 1000, img_width),
                y_max |-> Round(pred.y_max * 1000, img_height),
                x_max |-> Round(pred.x_max * 1000, img_width)]
    IN  [bounding_box |-> box,
         box_area |-> Round(box.height * box.width, 1000),
         centroid |-> [x |-> Round(2 * box.x_min + box.width, 2),
                       y |-> Round(2 * box.y_min + box.height, 2)],
         name |-> pred.label,
         object_type |-> get_object_type(pred.label),
         confidence |-> Round(pred.confidence, 10)]

get_objects(preds, img_width, img_height) ==
    [i \in 1..Len(preds) |-> get_object(preds[i], img_width, img_height)]


-----------------------------------------------------------------------------
(* Strings that the code takes apart are sequences of one-character strings *)

\* str.strip(): leading and trailing whitespace removed
RECURSIVE strip(_)
strip(s) ==
    IF s = << >> THEN s
    ELSE IF Head(s) = " " THEN strip(Tail(s))
    ELSE IF s[Len(s)] = " " THEN strip(SubSeq(s, 1, Len(s) - 1))
    ELSE s

\* str.replace(" ", "_")
replace_spaces(s) == [i \in 1..Len(s) |-> IF s[i] = " " THEN "_" ELSE s[i]]

\* the characters the pattern [^-\w.] keeps, among those the names are made of
KeptChars == {"-", ".", "_", "M", "y", "C", "a", "m", "c", "1", "2"}

\* str.lower()
lower(s) ==
    [i \in 1..Len(s) |-> CASE s[i] = "M" -> "m" [] s[i] = "C" -> "c" [] OTHER -> s[i]]

get_valid_filename(s) ==
    SelectSeq(replace_spaces(strip(s)), LAMBDA c : c \in KeptChars)

\* strftime(DATETIME_FORMAT) of a clock reading: the second it falls in
strftime(t) == t \div TicksPerSecond

-----------------------------------------------------------------------------
(* The target matcher of process_image *)

\* Python's `x in targets`, x a string: an element equal to x.  A target the
\* platform schema produced is a dict {target, confidence}, never equal to a
\* string; a list handed to the constructor directly may hold bare strings.
in_targets(x, tgts) ==
    \E i \in 1..Len(tgts) : tgts[i].kind = "str" /\ tgts[i].target = x

\* the test with the name looked up in the targets, as the type is
name_type_test_both_in(obj, tgts) ==
    in_targets(obj.name, tgts) \/ in_targets(obj.object_type, tgts)

\* obj["name"] or obj["object_type"] in self._targets
name_type_test(obj, tgts) ==
    obj.name # "" \/ in_targets(obj.object_type, tgts)

\* obj["confidence"] > self._confidence
confidence_test(obj, conf) == obj.confidence > conf

\* the comprehension that builds self._targets_found
find_targets(objs, tgts, conf, roi) ==
    SelectSeq(objs, LAMBDA obj :
        /\ name_type_test(obj, tgts)
        /\ confidence_test(obj, conf)
        /\ object_in_roi(roi, obj.centroid))

\* ds.get_objects_summary(predictions): label -> number of predictions
get_objects_summary(preds) ==
    [l \in {preds[i].label : i \in 1..Len(preds)} |->
        Cardinality({i \in 1..Len(preds) : preds[i].label = l})]

-----------------------------------------------------------------------------
(* save_image *)

latest_save_path(directory, nm) ==
    [dir |-> directory,
     file |-> lower(get_valid_filename(nm)) \o <<"_latest.jpg">>]

\* the timestamped path without the timestamp
timestamp_save_path_unstamped(directory, nm, last_det) ==
    [dir |-> directory, file |-> nm \o <<"_", "", ".jpg">>]

timestamp_save_path(directory, nm, last_det) ==
    [dir |-> directory,
     file |-> nm \o <<"_", ToString(last_det), ".jpg">>]

\* what the loop over targets draws for one target
draw_target(obj, img_w, img_h) ==
    << [kind |-> "box",
        at |-> <<obj.bounding_box.y_min, obj.bounding_box.x_min,
                 obj.bounding_box.y_max, obj.bounding_box.x_max>>,
        text |-> <<obj.name, ": ", ToString(Round(obj.confidence, 100)), "%">>,
        color |-> "RED"],
       [kind |-> "text",
        at |-> <<obj.centroid.x * img_w, obj.centroid.y * img_h>>,
        text |-> <<"X">>,
        color |-> "RED"] >>

RECURSIVE draw_targets(_, _, _)
draw_targets(tgts_found, img_w, img_h) ==
    IF tgts_found = << >> THEN << >>
    ELSE draw_target(Head(tgts_found), img_w, img_h)
         \o draw_targets(Tail(tgts_found), img_w, img_h)

\* The shapes drawn on the decoded image, in order.
draw_image(image, tgts_found, roi, show) ==
    LET roi_tuple == <<roi.y_min, roi.x_min, roi.y_max, roi.x_max>>
        roi_shape == IF roi_tuple # DEFAULT_ROI /\ show
                     THEN << [kind |-> "box", at |-> roi_tuple,
                              text |-> <<"ROI">>, color |-> "GREEN"] >>
                     ELSE << >>
        target_shapes == IF show
                         THEN draw_targets(tgts_found, image.width, image.height)
                         ELSE << >>
    IN  [width |-> image.width, height |-> image.height,
         shapes |-> roi_shape \o target_shapes]

\* save_image saving only an image it drew boxes on
save_image_if_boxes(image, tgts_found, directory, roi, show, nm, timestamped, last_det) ==
    IF image.kind # "ok"
    THEN [raised |-> "NameError", writes |-> << >>, ret |-> NoPath]
    ELSE IF ~show
    THEN [raised |-> "none", writes |-> << >>, ret |-> NoPath]
    ELSE
        LET img == draw_image(image, tgts_found, roi, show)
            latest == latest_save_path(directory, nm)
            stamped == timestamp_save_path(directory, nm, last_det)
        IN  IF timestamped
            THEN [raised |-> "none",
                  writes |-> << [path |-> latest, img |-> img],
                                [path |-> stamped, img |-> img] >>,
                  ret |-> stamped]
            ELSE [raised |-> "none",
                  writes |-> << [path |-> latest, img |-> img] >>,
                  ret |-> latest]

\* save_image(image, targets, directory), with the fields of self it reads.
\* The result: the exception that left it ("none": it returned), the files
\* it wrote, in order, and the value it returned.
\* Image.open(...).convert("RGB") fails on an image whose header Image.open
\* accepts and whose body cannot be loaded; the except clause then looks up
\* UnidentifiedImageError, a name the module never imports, and the lookup
\* raises NameError.
save_image(image, tgts_found, directory, roi, show, nm, timestamped, last_det) ==
    IF image.kind # "ok"
    THEN [raised |-> "NameError", writes |-> << >>, ret |-> NoPath]
    ELSE
        LET img == draw_image(image, tgts_found, roi, show)
            latest == latest_save_path(directory, nm)
            stamped == timestamp_save_path(directory, nm, last_det)
        IN  IF timestamped
            THEN [raised |-> "none",
                  writes |-> << [path |-> latest, img |-> img],
                                [path |-> stamped, img |-> img] >>,
                  ret |-> stamped]
            ELSE [raised |-> "none",
                  writes |-> << [path |-> latest, img |-> img] >>,
                  ret |-> latest]


-----------------------------------------------------------------------------
(* Inputs and configurations *)

\* {}: a dict with no key
EmptyDict == [k \in {} |-> 0]

\* self.entity_id, given by the host framework
entity_id == "image_processing.my_cam_1"

Dict(t, c) == [kind |-> "dict", target |-> t, confidence |-> c]
Str(t) == [kind |-> "str", target |-> t]

\* DEFAULT_TARGETS (DEFAULT_CONFIDENCE is 80), a list with per-target
\* confidences, and a list of bare strings
TargetLists ==
    { << Dict(PERSON, 80000) >>,
      << Dict(PERSON, 90000), Dict(ANIMAL, 50000) >>,
      << Str(PERSON), Str(OTHER_) >> }

Confidences == {50000, 85000}

Roi(y0, x0, y1, x1) == [y_min |-> y0, x_min |-> x0, y_max |-> y1, x_max |-> x1]
DefaultRoi == Roi(0, 0, 1000, 1000)
\* a region whose four edges pass through centroids of RawDetections
EdgeRoi == Roi(400, 300, 500, 500)
\* x_min > x_max
MalformedRoi == Roi(0, 700, 1000, 300)

NoFolder == ""
Folder == "/config/snapshots"

\* "My Cam 1" with a character the slug drops, and leading whitespace
Names == { <<" ", "M", "y", " ", "C", "a", "m", "#", "1">> }

MatcherConfigs ==
    [targets : TargetLists, confidence : Confidences,
     roi_dict : {DefaultRoi, EdgeRoi, MalformedRoi},
     show_boxes : {TRUE}, save_file_folder : {NoFolder},
     save_timestamped_file : {FALSE}, name : Names]

SaveConfig(roi, show, folder, timestamped) ==
    [targets : { << Dict(PERSON, 80000) >> }, confidence : {50000},
     roi_dict : roi, show_boxes : show, save_file_folder : folder,
     save_timestamped_file : timestamped, name : Names]

SaveConfigs ==
    SaveConfig({DefaultRoi}, BOOLEAN, {Folder}, BOOLEAN)
    \cup SaveConfig({EdgeRoi}, {TRUE}, {Folder}, {FALSE})
    \cup SaveConfig({EdgeRoi}, {FALSE}, {Folder}, {TRUE})
    \cup SaveConfig({DefaultRoi}, {TRUE}, {NoFolder}, {TRUE})

Pred(l, c, x0, y0, x1, y1) ==
    [label |-> l, confidence |-> c, x_min |-> x0, y_min |-> y0,
     x_max |-> x1, y_max |-> y1]

\* what the detector may report, on an image of 100 x 200 pixels:
\* a person at (0.3, 0.4) with confidence 85.0004 (rounded to 85.0),
\* a couch at (0.05, 0.05) and an unlabelled object at (0.5, 0.5), both
\* with confidence 90.0
RawDetections ==
    { Pred("person", 850004, 20, 60, 40, 100),
      Pred("couch", 900000, 0, 0, 10, 20),
      Pred("", 900000, 40, 80, 60, 120) }

PredictionLists == UNION { [1..n -> RawDetections] : n \in 0..MaxPreds }

\* image bytes: decodable; header readable and body not; not an image
Images ==
    [kind : {"ok", "truncated", "unidentified"}, width : {100}, height : {200}]

-----------------------------------------------------------------------------
(* The state machine *)

\* the state ObjectClassifyEntity.__init__ leaves, for one configuration
InitWith(c) ==
    /\ targets = c.targets
    /\ confidence = c.confidence
    /\ roi_dict = c.roi_dict
    /\ show_boxes = c.show_boxes
    /\ save_file_folder = c.save_file_folder
    /\ save_timestamped_file = c.save_timestamped_file
    /\ name = c.name
    /\ state = None
    /\ objects = << >>
    /\ targets_found = << >>
    /\ summary = EmptyDict
    /\ last_detection = None
    /\ image_width = None
    /\ image_height = None
    /\ now = 0
    /\ files = EmptyDict
    /\ decode = "none"
    /\ detector = "not called"
    /\ predictions = << >>
    /\ raised = "none"
    /\ effects = << >>

\* entities without a save directory, over the matcher's configurations
Init == \E c \in MatcherConfigs : InitWith(c)

\* entities over the configurations of the save step
InitSave == \E c \in SaveConfigs : InitWith(c)

\* the directory after the writes at clock tick t: img.save creates the file
\* of a path or replaces it
write_files(dir, writes, t) ==
    LET written == {writes[i].path : i \in 1..Len(writes)}
    IN  [p \in DOMAIN dir \cup written |-> IF p \in written THEN t ELSE dir[p]]

\* the event fired for one found target
target_event(target, saved_image_path) ==
    LET target_event_data ==
            IF saved_image_path # NoPath
            THEN ("saved_file" :> saved_image_path)
                 @@ ("entity_id" :> entity_id) @@ target
            ELSE ("entity_id" :> entity_id) @@ target
    IN  [op |-> "fire", event_type |-> EVENT_OBJECT_DETECTED,
         event_data |-> target_event_data]

fire_events(tgts_found, saved_image_path) ==
    [i \in 1..Len(tgts_found) |-> target_event(tgts_found[i], saved_image_path)]

save_effects(writes) ==
    [i \in 1..Len(writes) |->
        [op |-> "save", path |-> writes[i].path, img |-> writes[i].img]]

\* Image.open(...).size raises before any field is assigned
ProcessUndecodable(image) ==
    /\ image.kind = "unidentified"
    /\ decode' = "failed"
    /\ detector' = "not called"
    /\ raised' = "UnidentifiedImageError"
    /\ predictions' = << >>
    /\ effects' = << >>
    /\ UNCHANGED <<config_vars, entity_vars, now, files>>

\* the detector raises before the fields are reset
ProcessDetectorError_no_reset(image) ==
    /\ image.kind # "unidentified"
    /\ image_width' = image.width
    /\ image_height' = image.height
    /\ decode' = "ok"
    /\ detector' = "DeepstackException"
    /\ raised' = "none"
    /\ predictions' = << >>
    /\ effects' = << >>
    /\ UNCHANGED <<config_vars, state, objects, targets_found, summary,
                   last_detection, now, files>>

\* the detector raises DeepstackException: logged, and the call returns
ProcessDetectorError(image) ==
    /\ image.kind # "unidentified"
    /\ image_width' = image.width
    /\ image_height' = image.height
    /\ state' = None
    /\ objects' = << >>
    /\ targets_found' = << >>
    /\ summary' = EmptyDict
    /\ decode' = "ok"
    /\ detector' = "DeepstackException"
    /\ raised' = "none"
    /\ predictions' = << >>
    /\ effects' = << >>
    /\ UNCHANGED <<config_vars, last_detection, now, files>>

\* after the detector returned preds and the fields were assigned: the save
\* step and the events
SaveAndFire(image, found, last_det) ==
    IF save_file_folder # NoFolder /\ Len(found) > 0
    THEN \E saved \in {save_image(image, found, save_file_folder, roi_dict,
                                  show_boxes, name, save_timestamped_file,
                                  last_det)} :
            IF saved.raised # "none"
            THEN /\ raised' = saved.raised
                 /\ effects' = << >>
                 /\ files' = files
            ELSE /\ raised' = "none"
                 /\ effects' = save_effects(saved.writes)
                               \o fire_events(found, saved.ret)
                 /\ files' = write_files(files, saved.writes, now)
    ELSE /\ raised' = "none"
         /\ effects' = fire_events(found, NoPath)
         /\ files' = files

\* the detector returns preds
ProcessDetected(image, preds) ==
    /\ image.kind # "unidentified"
    /\ image_width' = image.width
    /\ image_height' = image.height
    /\ summary' = get_objects_summary(preds)
    /\ \E objs \in {get_objects(preds, image.width, image.height)} :
       \E found \in {find_targets(objs, targets, confidence, roi_dict)} :
       \E last_det \in {IF Len(found) > 0 THEN strftime(now) ELSE last_detection} :
        /\ objects' = objs
        /\ targets_found' = found
        /\ state' = Len(found)
        /\ last_detection' = last_det
        /\ SaveAndFire(image, found, last_det)
    /\ decode' = "ok"
    /\ detector' = "returned"
    /\ predictions' = preds
    /\ UNCHANGED <<config_vars, now>>

process_image ==
    \E image \in Images :
        \/ ProcessUndecodable(image)
        \/ ProcessDetectorError(image)
        \/ \E preds \in PredictionLists : ProcessDetected(image, preds)

\* time passes
Tick ==
    /\ now < MaxTick
    /\ now' = now + 1
    /\ UNCHANGED <<config_vars, entity_vars, files, call_vars>>

Next == process_image \/ Tick

Spec == Init /\ [][Next]_vars

SpecSave == InitSave /\ [][Next]_vars


-----------------------------------------------------------------------------
(* Vocabulary of the properties *)

\* the names the configured targets carry
TargetSet == {targets[i].target : i \in 1..Len(targets)}

\* obj is an entry of targets_found
Found(obj) == \E j \in 1..Len(targets_found) : targets_found[j] = obj

\* the centroid c is within the configured region, bounds included
InRoi(c) ==
    /\ roi_dict.x_min <= c.x /\ c.x <= roi_dict.x_max
    /\ roi_dict.y_min <= c.y /\ c.y <= roi_dict.y_max

\* the centroid c is on one of the four edges of the configured region
OnRoiEdge(c) ==
    /\ InRoi(c)
    /\ \/ c.x = roi_dict.x_min \/ c.x = roi_dict.x_max
       \/ c.y = roi_dict.y_min \/ c.y = roi_dict.y_max

\* the fields hold the result of a call in which the detector returned
Detected == decode = "ok" /\ detector = "returned"

-----------------------------------------------------------------------------
(* Properties of the target matcher, under Spec *)

\* C1: after a cycle in which the detector returned, every entry of
\* targets_found has its name or its object_type among the configured targets.
C1_FoundTargetsAreConfigured ==
    Detected =>
        \A j \in 1..Len(targets_found) :
            \/ targets_found[j].name \in TargetSet
            \/ targets_found[j].object_type \in TargetSet

\* C2: a detection whose confidence is not strictly greater than the threshold
\* is not a found target; a detection that passes the name/type and confidence
\* tests and whose centroid is on an edge of the region is a found target; a
\* region with min > max on an axis contains no centroid, so nothing is found.
C2_ConfidenceStrictRoiInclusive ==
    Detected =>
        /\ \A i \in 1..Len(objects) :
            /\ objects[i].confidence <= confidence => ~Found(objects[i])
            /\ ( /\ objects[i].name # "" \/ in_targets(objects[i].object_type, targets)
                 /\ objects[i].confidence > confidence
                 /\ OnRoiEdge(objects[i].centroid) )
               => Found(objects[i])
        /\ (roi_dict.x_min > roi_dict.x_max \/ roi_dict.y_min > roi_dict.y_max)
           => targets_found = << >>

\* C2 witness: in one cycle a detection in the target set and in the region,
\* with confidence equal to the threshold, is left out, and a detection on
\* the x_max and y_max edges of the region is found.
C2_Witness ==
    /\ Detected
    /\ \E i \in 1..Len(objects) :
        /\ objects[i].confidence = confidence
        /\ objects[i].name \in TargetSet
        /\ InRoi(objects[i].centroid)
        /\ ~Found(objects[i])
    /\ \E i \in 1..Len(objects) :
        /\ objects[i].centroid.x = roi_dict.x_max
        /\ objects[i].centroid.y = roi_dict.y_max
        /\ roi_dict # DefaultRoi
        /\ Found(objects[i])

\* C3: a detection matching a configured target that carries its own
\* confidence is a found target iff its confidence exceeds that target's
\* confidence and its centroid is in the region.
C3_PerTargetThresholdOverrides ==
    Detected =>
        \A i \in 1..Len(objects) : \A k \in 1..Len(targets) :
            ( /\ targets[k].kind = "dict"
              /\ targets[k].target \in {objects[i].name, objects[i].object_type} )
            => ( Found(objects[i])
                 <=> /\ objects[i].confidence > targets[k].confidence
                     /\ InRoi(objects[i].centroid) )

\* C10, as claimed: a detection with an empty name is a found target iff its
\* confidence exceeds the threshold and its centroid is in the region.
C10_EmptyNameAlwaysPasses ==
    Detected =>
        \A i \in 1..Len(objects) :
            objects[i].name = ""
            => ( Found(objects[i])
                 <=> /\ objects[i].confidence > confidence
                     /\ InRoi(objects[i].centroid) )

\* C10, amended: a detection with a non-empty name is a found target iff its
\* confidence exceeds the threshold and its centroid is in the region; a
\* detection with an empty name is one iff, besides, its object_type is
\* itself an element of the configured list of targets.
C10_NonEmptyNameAlwaysPasses ==
    Detected =>
        \A i \in 1..Len(objects) :
            LET passes == /\ objects[i].confidence > confidence
                          /\ InRoi(objects[i].centroid)
                listed == \E k \in 1..Len(targets) :
                              /\ targets[k].kind = "str"
                              /\ targets[k].target = objects[i].object_type
            IN  /\ objects[i].name # "" => (Found(objects[i]) <=> passes)
                /\ objects[i].name = "" => (Found(objects[i]) <=> passes /\ listed)

\* C10 witness: with targets from the platform schema, a detection with an
\* empty name, confidence above the threshold and centroid in the region is
\* not found, while a detection named outside the targets is.
C10_Witness ==
    /\ Detected
    /\ \A k \in 1..Len(targets) : targets[k].kind = "dict"
    /\ \E i \in 1..Len(objects) :
        /\ objects[i].name = ""
        /\ objects[i].confidence > confidence
        /\ InRoi(objects[i].centroid)
        /\ ~Found(objects[i])
    /\ \E i \in 1..Len(objects) :
        /\ objects[i].name # ""
        /\ objects[i].name \notin TargetSet
        /\ Found(objects[i])


-----------------------------------------------------------------------------
(* Properties of the processing cycle, under SpecSave *)

\* the file writes and the events among the effects of a call
Saves(effs) == SelectSeq(effs, LAMBDA e : e.op = "save")
Fires(effs) == SelectSeq(effs, LAMBDA e : e.op = "fire")

\* a step that is a call of process_image (time stands still during a call)
CallStep == now' = now

\* the path of the rolling file: the slug of " My Cam#1", lower-cased
LatestPath ==
    [dir |-> save_file_folder,
     file |-> <<"m", "y", "_", "c", "a", "m", "1", "_latest.jpg">>]

\* the path of the timestamped file of second sec
StampedPath(sec) ==
    [dir |-> save_file_folder, file |-> name \o <<"_", ToString(sec), ".jpg">>]

\* p is the path of a timestamped file
IsStamped(p) == p.file[Len(p.file)] = ".jpg"

\* the call of this step writes the file of path p
Written(p) ==
    \E i \in 1..Len(effects') : effects'[i].op = "save" /\ effects'[i].path = p

\* C4, as claimed: a call in which the detector fails returns without
\* raising and leaves state 0, objects, targets_found and summary empty, no
\* event, no file written and last_detection as it was.
C4_DetectorErrorResetsToZero ==
    [][ (CallStep /\ detector' = "DeepstackException")
        => /\ raised' = "none"
           /\ state' = 0
           /\ objects' = << >> /\ targets_found' = << >> /\ summary' = EmptyDict
           /\ effects' = << >> /\ files' = files
           /\ last_detection' = last_detection ]_vars

\* C4, amended: the same, with state left None (no count) instead of 0.
C4_DetectorErrorResetsToNone ==
    [][ (CallStep /\ detector' = "DeepstackException")
        => /\ raised' = "none"
           /\ state' = None
           /\ objects' = << >> /\ targets_found' = << >> /\ summary' = EmptyDict
           /\ effects' = << >> /\ files' = files
           /\ last_detection' = last_detection ]_vars

\* C4 witness: the detector failed in the cycle after one that found targets
\* and saved an image; the result is reset, the timestamp and the file stay.
C4_Witness ==
    /\ detector = "DeepstackException"
    /\ state = None /\ targets_found = << >>
    /\ last_detection # None
    /\ files # EmptyDict

\* C5: no exception leaves process_image, neither from its first decode nor
\* from the decode of the annotator; a call whose first decode fails leaves
\* the result reset, publishes no event and writes no file.
C5_DecodeFailureAborts ==
    /\ raised = "none"
    /\ decode = "failed"
       => /\ state = None
          /\ objects = << >> /\ targets_found = << >> /\ summary = EmptyDict
          /\ effects = << >>

\* C6: last_detection changes only in a call that ends with state > 0, and
\* then to the clock reading; a call in which the detector returns and no
\* target is found ends with state 0, targets_found empty and last_detection
\* as it was; after every call the entries of objects, targets_found and
\* summary are those of the predictions of that call.
C6_TimestampOnlyOnDetection ==
    [][ CallStep
        => /\ last_detection' # last_detection
              => (state' > 0 /\ last_detection' = now \div TicksPerSecond)
           /\ (detector' = "returned" /\ targets_found' = << >>)
              => (state' = 0 /\ last_detection' = last_detection)
           /\ Len(objects') = Len(predictions')
           /\ \A i \in 1..Len(objects') : objects'[i].name = predictions'[i].label
           /\ \A j \in 1..Len(targets_found') :
                \E i \in 1..Len(objects') : targets_found'[j] = objects'[i]
           /\ DOMAIN summary' = {predictions'[i].label : i \in 1..Len(predictions')}
      ]_vars

\* C7: the events of a cycle are one per entry of targets_found, in that
\* order, all after the file writes; each carries the fields of its detection
\* and the entity identifier, and the saved path iff a save directory is
\* configured and state > 0.
C7_OneEventPerTargetAfterSave ==
    LET fires == Fires(effects)
        nsaves == Len(Saves(effects))
    IN  /\ Len(fires) = Len(targets_found)
        /\ \A i \in 1..Len(effects) : (effects[i].op = "save") <=> (i <= nsaves)
        /\ \A i \in 1..Len(fires) :
            LET data == fires[i].event_data
            IN  /\ i <= Len(targets_found)
                /\ \A k \in DOMAIN targets_found[i] :
                    k \in DOMAIN data /\ data[k] = targets_found[i][k]
                /\ "entity_id" \in DOMAIN data /\ data["entity_id"] = entity_id
                /\ ("saved_file" \in DOMAIN data)
                   <=> (save_file_folder # NoFolder /\ state > 0)
                /\ ("saved_file" \in DOMAIN data)
                   => data["saved_file"] = Saves(effects)[nsaves].path

\* C8: the annotator runs only with a save directory configured and
\* state > 0; run on a decodable image it writes the latest file, show_boxes
\* or not, then the timestamped file iff timestamped saving is enabled, and
\* nothing else; the path it returns (the events carry it) is that of the
\* timestamped file if written and of the latest file otherwise.
C8_AnnotatorWritesLatest ==
    LET saves == Saves(effects) IN
    /\ (saves # << >> \/ raised = "NameError")
       => (save_file_folder # NoFolder /\ state > 0)
    /\ Len(saves) <= 2
    /\ (Detected /\ raised = "none" /\ save_file_folder # NoFolder /\ state > 0)
       => /\ Len(saves) = IF save_timestamped_file THEN 2 ELSE 1
          /\ saves[1].path = LatestPath
          /\ LatestPath \in DOMAIN files
          /\ save_timestamped_file => saves[2].path = StampedPath(last_detection)
          /\ \A i \in 1..Len(effects) :
                effects[i].op = "fire"
                => effects[i].event_data["saved_file"] =
                       IF save_timestamped_file
                       THEN StampedPath(last_detection) ELSE LatestPath

\* C8 witness: with show_boxes off and timestamped saving on, a cycle that
\* found a target wrote the latest file, undecorated, and the timestamped one.
C8_Witness ==
    /\ Detected /\ raised = "none" /\ state > 0
    /\ ~show_boxes /\ save_timestamped_file
    /\ Len(Saves(effects)) = 2
    /\ Saves(effects)[1].path = LatestPath
    /\ Saves(effects)[1].img.shapes = << >>

====
